---------------------------- MODULE Spec2Model ----------------------------
(***************************************************************************)
(* Model of the dual-protocol request bridge of mcp-server-qdrant          *)
(* (src/mcp_server_qdrant/http_app.py) and of the OpenAI embedding         *)
(* provider (src/mcp_server_qdrant/embeddings/openai_provider.py).         *)
(*                                                                         *)
(* Python strings are sequences of one-character strings, so that          *)
(* `in`, split, startswith, replace and lower are computed character by    *)
(* character.  An absent value (None, a missing key, a missing header) is  *)
(* the record Absent; a present string s is Str(s).                        *)
(*                                                                         *)
(* Four specifications share the module:                                   *)
(*   SpecResolve    _resolve_tool_name applied once and then again         *)
(*   SpecSerialize  _serialize_content applied to a list of items          *)
(*   Spec           one HTTP request through HybridMCPApp.__call__         *)
(*   SpecEmbed      the life of one OpenAIEmbeddingProvider                *)
(***************************************************************************)
EXTENDS Integers, Sequences, FiniteSets, TLC

VARIABLES
    \* SpecResolve
    rRaw, rPc, rFirst, rSecond,
    \* SpecSerialize
    sItems, sPc, sContent,
    \* SpecEmbed: the provider object, and its two kinds of request in flight
    pState, modelName, probe, probeCount, vectorSize, vectorName,
    dPc, dDocs, dResponse, dResult,
    qPc, qText, qResult,
    \* Spec: the process-wide default collection, and one HTTP request
    defaultCollection, hPc, scope, handlers, bodyRead, payload, response,
    escaped, storeCalls, searchCalls, searchAnswer

resolveVars == <<rRaw, rPc, rFirst, rSecond>>
serializeVars == <<sItems, sPc, sContent>>
providerVars == <<pState, modelName, probe, probeCount, vectorSize, vectorName>>
documentsVars == <<dPc, dDocs, dResponse, dResult>>
queryVars == <<qPc, qText, qResult>>
embedVars == <<providerVars, documentsVars, queryVars>>
httpVars == <<defaultCollection, hPc, scope, handlers, bodyRead, payload, response,
              escaped, storeCalls, searchCalls, searchAnswer>>
vars == <<resolveVars, serializeVars, embedVars, httpVars>>

\* What the actions of one specification leave alone.
notResolveVars == <<serializeVars, embedVars, httpVars>>
notSerializeVars == <<resolveVars, embedVars, httpVars>>
notEmbedVars == <<resolveVars, serializeVars, httpVars>>
notHttpVars == <<resolveVars, serializeVars, embedVars>>

---------------------------------------------------------------------------
(* Python values and string primitives *)

Absent == [present |-> FALSE, chars |-> <<>>]
Str(s) == [present |-> TRUE, chars |-> s]

\* Python truthiness of an optional string: None and "" are falsy.
Truthy(v) == v.present /\ v.chars # <<>>

\* `c in s` for a one-character c.
HasChar(s, c) == \E i \in 1..Len(s) : s[i] = c

\* `needle in hay` for strings: needle occurs as a contiguous substring.
Contains(hay, needle) ==
    \E i \in 0..(Len(hay) - Len(needle)) :
        SubSeq(hay, i + 1, i + Len(needle)) = needle

\* s.startswith(p)
StartsWith(s, p) == Len(p) <= Len(s) /\ SubSeq(s, 1, Len(p)) = p

\* Position of the first occurrence of character c in s (s contains c).
FirstIndex(s, c) == CHOOSE i \in 1..Len(s) : s[i] = c /\ \A j \in 1..(i - 1) : s[j] # c

\* s.split(c, 1) for a string s that contains c: the parts around the first c.
SplitFirst(s, c) ==
    LET i == FirstIndex(s, c)
    IN  [namespace |-> SubSeq(s, 1, i - 1), rest |-> SubSeq(s, i + 1, Len(s))]

UpperCase == {"A", "B", "C", "D", "E", "F", "G", "H", "I", "J", "K", "L", "M",
              "N", "O", "P", "Q", "R", "S", "T", "U", "V", "W", "X", "Y", "Z"}

LowerOf ==
    ("A" :> "a") @@ ("B" :> "b") @@ ("C" :> "c") @@ ("D" :> "d") @@ ("E" :> "e") @@
    ("F" :> "f") @@ ("G" :> "g") @@ ("H" :> "h") @@ ("I" :> "i") @@ ("J" :> "j") @@
    ("K" :> "k") @@ ("L" :> "l") @@ ("M" :> "m") @@ ("N" :> "n") @@ ("O" :> "o") @@
    ("P" :> "p") @@ ("Q" :> "q") @@ ("R" :> "r") @@ ("S" :> "s") @@ ("T" :> "t") @@
    ("U" :> "u") @@ ("V" :> "v") @@ ("W" :> "w") @@ ("X" :> "x") @@ ("Y" :> "y") @@
    ("Z" :> "z")

\* s.lower()
Lower(s) == [i \in 1..Len(s) |-> IF s[i] \in UpperCase THEN LowerOf[s[i]] ELSE s[i]]

\* Concatenation of a sequence of strings.
RECURSIVE Concat(_)
Concat(parts) == IF parts = <<>> THEN <<>> ELSE Head(parts) \o Concat(Tail(parts))

---------------------------------------------------------------------------
(* Tool-name resolution: http_app.py, _resolve_tool_name *)

QDRANT == <<"q","d","r","a","n","t">>
QDRANT_RAG == <<"q","d","r","a","n","t","-","r","a","g">>
QDRANT_RAG_MCP == <<"q","d","r","a","n","t","-","r","a","g","-","m","c","p">>
QDRANT_PREFIX == <<"q","d","r","a","n","t","_">>
QDRANT_STORE == <<"q","d","r","a","n","t","-","s","t","o","r","e">>
QDRANT_FIND == <<"q","d","r","a","n","t","-","f","i","n","d">>
DOT == "."

\* The namespaces that are stripped.
AliasNamespaces == {QDRANT, QDRANT_RAG, QDRANT_RAG_MCP}

\* The result of a call that may raise: the exception's message, or the value.
Raised(msg) == [raised |-> TRUE, msg |-> msg, name |-> <<>>]
Returned(name) == [raised |-> FALSE, msg |-> "", name |-> name]

\* raw_name[len("qdrant_"):]
StripLiteralPrefix(s) == SubSeq(s, Len(QDRANT_PREFIX) + 1, Len(s))

\* A slip of the resolver: the literal prefix is also stripped from a name
\* that has a "." (the elif taken as an if on the split result).
MutantResolveStripBoth(s) ==
    LET afterNs == IF HasChar(s, DOT) /\ SplitFirst(s, DOT).namespace \in AliasNamespaces
                   THEN SplitFirst(s, DOT).rest ELSE s
    IN  IF StartsWith(afterNs, QDRANT_PREFIX) THEN StripLiteralPrefix(afterNs) ELSE afterNs

\* A slip of the resolver: the literal prefix is tested as "qdrant", without
\* its underscore, so that "qdrant-store" loses its first seven characters.
MutantResolveLoosePrefix(s) ==
    IF HasChar(s, DOT)
    THEN LET parts == SplitFirst(s, DOT)
         IN  IF parts.namespace \in AliasNamespaces THEN parts.rest ELSE s
    ELSE IF StartsWith(s, QDRANT)
         THEN StripLiteralPrefix(s)
         ELSE s

\* Lines 44-51: the name of a non-empty raw name.
ResolveNonEmpty(s) ==
    IF HasChar(s, DOT)
    THEN LET parts == SplitFirst(s, DOT)
         IN  IF parts.namespace \in AliasNamespaces THEN parts.rest ELSE s
    ELSE IF StartsWith(s, QDRANT_PREFIX)
         THEN StripLiteralPrefix(s)
         ELSE s

_resolve_tool_name(raw_name) ==
    IF ~Truthy(raw_name)
    THEN Raised("Missing tool name")
    ELSE Returned(ResolveNonEmpty(raw_name.chars))

---------------------------------------------------------------------------
(* Content normalisation: http_app.py, _serialize_content *)

\* A result item is a Python value: its class (py) and what it holds (val).
\*   "str"        a string
\*   "dict"       a plain dict
\*   "model"      an object with a model_dump method (a pydantic model)
\*   "dictmodel"  a dict subclass that also has a model_dump method
\*   "other"      any other object
PyClasses == {"str", "dict", "model", "dictmodel", "other"}

\* hasattr(item, "model_dump")
HasModelDump(item) == item.py \in {"model", "dictmodel"}

\* isinstance(item, dict)
IsDict(item) == item.py \in {"dict", "dictmodel"}

\* str(item): a string is its own text, another object prints its value.
StrOf(item) == IF item.py = "str" THEN item.val ELSE <<"str(">> \o item.val \o <<")">>

\* The three blocks _serialize_content appends.
StructuredBlock(item) == [variant |-> "model_dump", type |-> "", text |-> <<>>, value |-> item]
MappingBlock(item) == [variant |-> "mapping", type |-> "", text |-> <<>>, value |-> item]
TextBlock(text) ==
    [variant |-> "text", type |-> "text", text |-> text, value |-> [py |-> "str", val |-> text]]

\* A slip of the normaliser: the dict test is made before the model_dump test.
MutantSerializeItem(item) ==
    IF IsDict(item) THEN MappingBlock(item)
    ELSE IF HasModelDump(item) THEN StructuredBlock(item)
    ELSE TextBlock(StrOf(item))

\* Lines 57-62: the block appended for one item.
SerializeItem(item) ==
    IF HasModelDump(item) THEN StructuredBlock(item)
    ELSE IF IsDict(item) THEN MappingBlock(item)
    ELSE TextBlock(StrOf(item))

\* Lines 55-63: the loop, appending one block per item, in order.
RECURSIVE SerializeLoop(_, _)
SerializeLoop(content, items) ==
    IF items = <<>> THEN content
    ELSE SerializeLoop(Append(content, SerializeItem(Head(items))), Tail(items))

_serialize_content(items) == SerializeLoop(<<>>, items)

---------------------------------------------------------------------------
(* Tool invocation: http_app.py, _call_tool_direct *)

\* arguments.get(key) on the arguments of a call: {} when the key
\* "arguments" is absent, else the object given.
ArgGet(arguments, key) == IF arguments.kind = "object" THEN arguments[key] ELSE Absent

\* What _call_tool_direct leaves behind: the exception or the strings
\* returned, and the calls made to the vector-store connector.
ToolRaised(msg, stores, searches, answer) ==
    [raised |-> TRUE, msg |-> msg, blocks |-> <<>>,
     storeCalls |-> stores, searchCalls |-> searches, searchAnswer |-> answer]
ToolReturned(blocks, stores, searches, answer) ==
    [raised |-> FALSE, msg |-> <<>>, blocks |-> blocks,
     storeCalls |-> stores, searchCalls |-> searches, searchAnswer |-> answer]

NoAnswer == [asked |-> FALSE, raised |-> FALSE, entries |-> <<>>]
SearchRaised == [asked |-> TRUE, raised |-> TRUE, entries |-> <<>>]
SearchFound(entries) == [asked |-> TRUE, raised |-> FALSE, entries |-> entries]

\* A slip of the invoker: the default collection wins over the argument.
MutantEffectiveCollection(collection_name, default) ==
    IF Truthy(default) THEN default ELSE collection_name

\* Lines 178 and 190: collection_name or mcp.qdrant_settings.collection_name
EffectiveCollection(collection_name, default) ==
    IF Truthy(collection_name) THEN collection_name ELSE default

\* Line 183.
RememberedText(information, collection) ==
    <<"Remembered: ">> \o information \o <<" in collection ">> \o collection

\* Line 203.
ResultsHeader(query) == <<"Results for the query '">> \o query \o <<"'">>

\* Lines 205-208: entry.metadata or {} is printed as {} when there is none.
EntryText(entry) ==
    <<"<entry><content>">> \o entry.content \o <<"</content><metadata>">>
        \o (IF entry.metadata = <<>> THEN <<"{}">> ELSE entry.metadata)
        \o <<"</metadata></entry>">>

\* Lines 172-183: qdrant-store.
StoreTool(arguments, default, env) ==
    IF arguments.kind = "array"
    THEN ToolRaised(<<"'list' object has no attribute 'get'">>, <<>>, <<>>, NoAnswer)
    ELSE
    LET information == ArgGet(arguments, "information")
        collection == EffectiveCollection(ArgGet(arguments, "collection_name"), default)
        call == [entry |-> [content |-> information.chars,
                            metadata |-> ArgGet(arguments, "metadata")],
                 collection_name |-> collection.chars]
    IN  IF ~Truthy(information)
        THEN ToolRaised(<<"information is required">>, <<>>, <<>>, NoAnswer)
        ELSE IF ~Truthy(collection)
        THEN ToolRaised(<<"collection_name is required when no default is set">>,
                        <<>>, <<>>, NoAnswer)
        ELSE IF env.storeRaises
        THEN ToolRaised(<<"connector: store failed">>, <<call>>, <<>>, NoAnswer)
        ELSE ToolReturned(<<RememberedText(information.chars, collection.chars)>>,
                          <<call>>, <<>>, NoAnswer)

\* Lines 185-209: qdrant-find.
FindTool(arguments, default, env) ==
    IF arguments.kind = "array"
    THEN ToolRaised(<<"'list' object has no attribute 'get'">>, <<>>, <<>>, NoAnswer)
    ELSE
    LET query == ArgGet(arguments, "query")
        collection == EffectiveCollection(ArgGet(arguments, "collection_name"), default)
        query_filter == IF arguments.kind = "object" THEN arguments.query_filter ELSE "absent"
        call == [query |-> query.chars, collection_name |-> collection.chars,
                 limit |-> "search_limit",
                 query_filter |-> IF query_filter = "valid" THEN "Filter" ELSE "None"]
        entries == env.search.entries
    IN  IF ~Truthy(query)
        THEN ToolRaised(<<"query is required">>, <<>>, <<>>, NoAnswer)
        ELSE IF ~Truthy(collection)
        THEN ToolRaised(<<"collection_name is required when no default is set">>,
                        <<>>, <<>>, NoAnswer)
        ELSE IF query_filter = "invalid"
        THEN ToolRaised(<<"Filter: validation error">>, <<>>, <<>>, NoAnswer)
        ELSE IF env.search.raised
        THEN ToolRaised(<<"connector: search failed">>, <<>>, <<call>>, SearchRaised)
        ELSE IF entries = <<>>
        THEN ToolReturned(<<<<"No matching entries.">>>>, <<>>, <<call>>, SearchFound(entries))
        ELSE ToolReturned(<<ResultsHeader(query.chars)>>
                              \o [i \in 1..Len(entries) |-> EntryText(entries[i])],
                          <<>>, <<call>>, SearchFound(entries))

\* A slip of the invoker: the collection is checked before the required
\* argument.
MutantCallToolDirect(name, arguments, default, env) ==
    IF name \in {QDRANT_STORE, QDRANT_FIND} /\ arguments.kind # "array"
       /\ ~Truthy(EffectiveCollection(ArgGet(arguments, "collection_name"), default))
    THEN ToolRaised(<<"collection_name is required when no default is set">>,
                    <<>>, <<>>, NoAnswer)
    ELSE IF name = QDRANT_STORE THEN StoreTool(arguments, default, env)
    ELSE IF name = QDRANT_FIND THEN FindTool(arguments, default, env)
    ELSE ToolRaised(<<"Unknown tool: ">> \o name, <<>>, <<>>, NoAnswer)

\* Lines 166-211.
_call_tool_direct(name, arguments, default, env) ==
    IF name = QDRANT_STORE THEN StoreTool(arguments, default, env)
    ELSE IF name = QDRANT_FIND THEN FindTool(arguments, default, env)
    ELSE ToolRaised(<<"Unknown tool: ">> \o name, <<>>, <<>>, NoAnswer)

---------------------------------------------------------------------------
(* The JSON-RPC shim: http_app.py, _handle_jsonrpc *)

NoResult200 == [tag |-> "", content |-> <<>>]
NoResponse ==
    [sent |-> FALSE, status |-> 0, envelope |-> FALSE, id |-> "None",
     hasResult |-> FALSE, hasError |-> FALSE,
     result |-> NoResult200, code |-> 0, message |-> <<>>]

\* Line 70: JSONResponse({"error": "Invalid JSON-RPC payload"}, status_code=400)
InvalidPayloadResponse ==
    [sent |-> TRUE, status |-> 400, envelope |-> FALSE, id |-> "None",
     hasResult |-> FALSE, hasError |-> TRUE,
     result |-> NoResult200, code |-> 0, message |-> <<"Invalid JSON-RPC payload">>]

\* Lines 26-27.
_jsonrpc_result(id_value, result) ==
    [sent |-> TRUE, status |-> 200, envelope |-> TRUE, id |-> id_value,
     hasResult |-> TRUE, hasError |-> FALSE,
     result |-> result, code |-> 0, message |-> <<>>]

\* Lines 30-33.
_jsonrpc_error(id_value, code, message) ==
    [sent |-> TRUE, status |-> 200, envelope |-> TRUE, id |-> id_value,
     hasResult |-> FALSE, hasError |-> TRUE,
     result |-> NoResult200, code |-> code, message |-> message]

ToolError == -32000
MethodNotImplemented == -32601

\* What _handle_jsonrpc leaves behind: a response, or an exception that
\* leaves it, and the calls made to the connector.
Responds(resp) ==
    [response |-> resp, escaped |-> <<>>,
     storeCalls |-> <<>>, searchCalls |-> <<>>, searchAnswer |-> NoAnswer]
Escapes(msg) ==
    [response |-> NoResponse, escaped |-> msg,
     storeCalls |-> <<>>, searchCalls |-> <<>>, searchAnswer |-> NoAnswer]

\* The strings of a tool result as result items.
StrItems(blocks) == [i \in 1..Len(blocks) |-> [py |-> "str", val |-> blocks[i]]]

\* Lines 89-100: tools/call.
ToolsCall(body, default, env) ==
    IF body.params.kind = "array"
    THEN Escapes(<<"'list' object has no attribute 'get'">>)
    ELSE
    LET raw_name == IF body.params.kind = "object" THEN body.params.name ELSE Absent
        arguments == IF body.params.kind = "object"
                     THEN body.params.arguments
                     ELSE [kind |-> "absent"]
        resolved == _resolve_tool_name(raw_name)
        call == _call_tool_direct(resolved.name, arguments, default, env)
    IN  IF resolved.raised
        THEN Escapes(<<resolved.msg>>)
        ELSE [response |->
                 IF call.raised
                 THEN _jsonrpc_error(body.id, ToolError, call.msg)
                 ELSE _jsonrpc_result(body.id,
                          [tag |-> "content",
                           content |-> _serialize_content(StrItems(call.blocks))]),
              escaped |-> <<>>,
              storeCalls |-> call.storeCalls,
              searchCalls |-> call.searchCalls,
              searchAnswer |-> call.searchAnswer]

\* Lines 66-105.
_handle_jsonrpc(body, default, env) ==
    IF body.json = "invalid" THEN Responds(InvalidPayloadResponse)
    ELSE IF body.json # "object"
    THEN Escapes(<<"'">>  \o <<body.json>> \o <<"' object has no attribute 'get'">>)
    ELSE IF body.method = "initialize"
    THEN Responds(_jsonrpc_result(body.id, [tag |-> "initialize", content |-> <<>>]))
    ELSE IF body.method = "tools/list"
    THEN Responds(_jsonrpc_result(body.id, [tag |-> "tools", content |-> <<>>]))
    ELSE IF body.method = "tools/list_changed"
    THEN Responds(_jsonrpc_result(body.id, [tag |-> "empty", content |-> <<>>]))
    ELSE IF body.method = "tools/call"
    THEN ToolsCall(body, default, env)
    ELSE IF body.method = "ping"
    THEN Responds(_jsonrpc_result(body.id, [tag |-> "status ok", content |-> <<>>]))
    ELSE Responds(_jsonrpc_error(body.id, MethodNotImplemented,
                                 <<"Method not implemented: ", body.method>>))

---------------------------------------------------------------------------
(* The router: http_app.py, _should_use_jsonrpc and HybridMCPApp.__call__ *)

MCP_PREFIX == <<"/","m","c","p">>
APPLICATION_JSON == <<"a","p","p","l","i","c","a","t","i","o","n","/","j","s","o","n">>
APPLICATION_JSON_SEQ == APPLICATION_JSON \o <<"-","s","e","q">>
TEXT_EVENT_STREAM == <<"t","e","x","t","/","e","v","e","n","t","-","s","t","r","e","a","m">>

\* headers.get(name, ""): the header's value, "" when it is not sent.
HeaderGet(header) == IF header.present THEN header.chars ELSE <<>>

\* A slip of the router: the content type is compared as it was sent.
Mutant_should_use_jsonrpc(sc) ==
    /\ sc.method = "POST"
    /\ ~Contains(HeaderGet(sc.accept), APPLICATION_JSON_SEQ)
    /\ ~Contains(HeaderGet(sc.accept), TEXT_EVENT_STREAM)
    /\ Contains(HeaderGet(sc.content_type), APPLICATION_JSON)

\* Lines 108-115.
_should_use_jsonrpc(sc) ==
    IF sc.method # "POST" THEN FALSE
    ELSE IF \/ Contains(HeaderGet(sc.accept), APPLICATION_JSON_SEQ)
            \/ Contains(HeaderGet(sc.accept), TEXT_EVENT_STREAM)
    THEN FALSE
    ELSE Contains(Lower(HeaderGet(sc.content_type)), APPLICATION_JSON)

\* Lines 123-130: whether __call__ hands the request to the shim.
TakesJsonRpc(sc) ==
    /\ sc.type = "http"
    /\ StartsWith(sc.path, MCP_PREFIX)
    /\ _should_use_jsonrpc(sc)

---------------------------------------------------------------------------
(* SpecResolve: a raw name is resolved, and its result resolved again *)

UNKNOWN_NS == <<"u","n","k","n","o","w","n","-","n","s">>
UPPER_QDRANT == <<"Q","d","r","a","n","t">>
FOO == <<"f","o","o">>
STORE == <<"s","t","o","r","e">>

\* Most prefix tokens in front of a raw name's base.
MaxPrefixes == 2

\* Tokens a caller may put in front of a tool name.
PrefixTokens ==
    { QDRANT \o <<DOT>>, QDRANT_RAG \o <<DOT>>, QDRANT_RAG_MCP \o <<DOT>>,
      UNKNOWN_NS \o <<DOT>>, UPPER_QDRANT \o <<DOT>>, QDRANT_PREFIX, QDRANT }

BaseNames == { <<>>, <<"x">>, FOO, STORE, QDRANT_STORE, QDRANT_FIND, <<"-">> \o STORE }

PrefixSeqs == UNION { [1..n -> PrefixTokens] : n \in 0..MaxPrefixes }

\* The raw names of the model: prefix tokens followed by a base, and None.
RawNames == { Str(Concat(p) \o b) : p \in PrefixSeqs, b \in BaseNames } \cup {Absent}

ResolveInit ==
    /\ rRaw \in RawNames
    /\ rPc = "start"
    /\ rFirst = Returned(<<>>)
    /\ rSecond = Returned(<<>>)

ResolveIdle ==
    /\ rRaw = Absent
    /\ rPc = "off"
    /\ rFirst = Returned(<<>>)
    /\ rSecond = Returned(<<>>)

ResolveFirst ==
    /\ rPc = "start"
    /\ rFirst' = _resolve_tool_name(rRaw)
    /\ rPc' = IF rFirst'.raised THEN "raised" ELSE "resolved"
    /\ UNCHANGED <<rRaw, rSecond, notResolveVars>>

ResolveAgain ==
    /\ rPc = "resolved"
    /\ rSecond' = _resolve_tool_name(Str(rFirst.name))
    /\ rPc' = "again"
    /\ UNCHANGED <<rRaw, rFirst, notResolveVars>>


(* Claims about tool-name resolution *)

\* The first resolution has run on a non-empty raw name.
ResolvedNonEmpty == rPc \in {"resolved", "again", "raised"} /\ Truthy(rRaw)

\* A name that resolution leaves alone: it is not empty, does not begin with
\* an alias namespace followed by "." and, when it has no ".", does not
\* begin with "qdrant_".
Settled(m) ==
    /\ m # <<>>
    /\ \A a \in {QDRANT, QDRANT_RAG, QDRANT_RAG_MCP} : ~StartsWith(m, a \o <<".">>)
    /\ (HasChar(m, ".") \/ ~StartsWith(m, QDRANT_PREFIX))

\* C4 (as stated): resolution is idempotent: for every non-empty raw name n,
\* resolving resolve(n) again succeeds and returns resolve(n).
C4_Idempotent ==
    (rPc = "again" /\ Truthy(rRaw)) => (~rSecond.raised /\ rSecond.name = rFirst.name)

\* C4 (amended): resolving resolve(n) again returns resolve(n) whenever
\* resolve(n) is not empty and does not itself begin with an alias namespace
\* followed by "." or, having no ".", with "qdrant_".
C4_IdempotentOnSettled ==
    (rPc = "again" /\ Truthy(rRaw) /\ Settled(rFirst.name))
        => (~rSecond.raised /\ rSecond.name = rFirst.name)

\* C4 witness: "qdrant-rag.qdrant-find" resolved to "qdrant-find", and
\* "qdrant-find" resolved again to itself.
C4_Witness ==
    /\ rPc = "again"
    /\ rRaw = Str(QDRANT_RAG \o <<".">> \o QDRANT_FIND)
    /\ rFirst.name = QDRANT_FIND
    /\ rSecond.name = QDRANT_FIND

\* The name the claim gives for a non-empty raw name s.
C5_Expected(s, out) ==
    /\ HasChar(s, ".") =>
          \E i \in 1..Len(s) :
             /\ s[i] = "."
             /\ \A j \in 1..(i - 1) : s[j] # "."
             /\ IF SubSeq(s, 1, i - 1) \in {QDRANT, QDRANT_RAG, QDRANT_RAG_MCP}
                THEN out = SubSeq(s, i + 1, Len(s))
                ELSE out = s
    /\ (~HasChar(s, ".") /\ StartsWith(s, QDRANT_PREFIX)) => QDRANT_PREFIX \o out = s
    /\ (~HasChar(s, ".") /\ ~StartsWith(s, QDRANT_PREFIX)) => out = s

\* C5: for a non-empty raw name _resolve_tool_name never raises; with a "."
\* it returns the part after the first "." when the part before it is an
\* alias namespace and the raw name otherwise (no "qdrant_" stripping there);
\* without a "." it strips a leading "qdrant_"; otherwise it is the identity.
\* "qdrant.qdrant-store" gives "qdrant-store", "unknown-ns.foo" is unchanged.
C5_ResolveCases ==
    ResolvedNonEmpty =>
        /\ ~rFirst.raised
        /\ rPc # "raised"
        /\ C5_Expected(rRaw.chars, rFirst.name)
        /\ (rRaw.chars = QDRANT \o <<".">> \o QDRANT_STORE => rFirst.name = QDRANT_STORE)
        /\ (rRaw.chars = UNKNOWN_NS \o <<".">> \o FOO => rFirst.name = UNKNOWN_NS \o <<".">> \o FOO)

\* C5 witness: an alias namespace in front of a name with the literal prefix;
\* the namespace is stripped and the prefix is kept.
C5_Witness ==
    /\ rPc = "resolved"
    /\ rRaw = Str(QDRANT \o <<".">> \o QDRANT_PREFIX \o STORE)
    /\ rFirst.name = QDRANT_PREFIX \o STORE

---------------------------------------------------------------------------
(* SpecSerialize: a list of result items is normalised *)

\* Longest list of result items.
MaxItems == 3

ItemValues == {<<"a">>, <<"b">>}
Items == [py : PyClasses, val : ItemValues]
ItemLists == UNION { [1..n -> Items] : n \in 0..MaxItems }

SerializeInit ==
    /\ sItems \in ItemLists
    /\ sPc = "start"
    /\ sContent = <<>>

SerializeIdle ==
    /\ sItems = <<>>
    /\ sPc = "off"
    /\ sContent = <<>>

Serialize ==
    /\ sPc = "start"
    /\ sContent' = _serialize_content(sItems)
    /\ sPc' = "done"
    /\ UNCHANGED <<sItems, notSerializeVars>>

(* Claims about content normalisation *)

\* The block the claim gives for one item.
C8_Expected(item) ==
    IF item.py \in {"model", "dictmodel"}
    THEN [variant |-> "model_dump", type |-> "", text |-> <<>>, value |-> item]
    ELSE IF item.py = "dict"
    THEN [variant |-> "mapping", type |-> "", text |-> <<>>, value |-> item]
    ELSE [variant |-> "text", type |-> "text", text |-> StrOf(item),
          value |-> [py |-> "str", val |-> StrOf(item)]]

\* C8: _serialize_content returns a list of the same length whose i-th block
\* comes from the i-th item alone: its model_dump if it has one, else the
\* item itself if it is a dict, else a text block of str(item); an item that
\* has model_dump and is a dict is dumped.
C8_OneBlockPerItem ==
    sPc = "done" =>
        /\ Len(sContent) = Len(sItems)
        /\ \A i \in 1..Len(sItems) : sContent[i] = C8_Expected(sItems[i])

\* C8 witness: the mixed list [structured item, dict, plain string] gave three
\* blocks in that order.
C8_Witness ==
    /\ sPc = "done"
    /\ Len(sItems) = 3
    /\ sItems[1].py = "model" /\ sItems[2].py = "dict" /\ sItems[3].py = "str"
    /\ sContent[1].variant = "model_dump" /\ sContent[1].value = sItems[1]
    /\ sContent[2].variant = "mapping" /\ sContent[2].value = sItems[2]
    /\ sContent[3].variant = "text" /\ sContent[3].text = sItems[3].val


---------------------------------------------------------------------------
(* The embedding provider: embeddings/openai_provider.py *)

OPENAI_DASH == <<"o","p","e","n","a","i","-">>

\* s.replace(old, "-") for a one-character old.
ReplaceChar(s, old) == [i \in 1..Len(s) |-> IF s[i] = old THEN "-" ELSE s[i]]

\* Lines 26-29: the vector name of a model name.
VectorNameOf(model_name) ==
    Lower(OPENAI_DASH \o ReplaceChar(ReplaceChar(ReplaceChar(model_name, "/"), ":"), " "))

\* The vector the transport computes for a text.
Embedding(text) == <<"embedding-of", text>>

\* Line 36: the sort key, getattr(item, "index", 0).
SortKey(item) == IF item.hasIndex THEN item.index ELSE 0

\* Insertion of an item behind every item whose key is not larger (stable).
RECURSIVE InsertByKey(_, _)
InsertByKey(sorted, item) ==
    IF sorted = <<>> THEN <<item>>
    ELSE IF SortKey(Head(sorted)) <= SortKey(item)
         THEN <<Head(sorted)>> \o InsertByKey(Tail(sorted), item)
         ELSE <<item>> \o sorted

RECURSIVE SortLoop(_, _)
SortLoop(sorted, rest) ==
    IF rest = <<>> THEN sorted
    ELSE SortLoop(InsertByKey(sorted, Head(rest)), Tail(rest))

\* A slip of the provider: the response is used in the transport's order.
MutantSortedByIndex(data) == data

\* Line 36: sorted(response.data, key=...), a stable sort.
SortedByIndex(data) == SortLoop(<<>>, data)

\* Line 37: the embeddings of the sorted items.
ExtractVectors(data) ==
    LET sorted_data == SortedByIndex(data)
    IN  [i \in 1..Len(sorted_data) |-> sorted_data[i].embedding]

NoResult == [raised |-> FALSE, vectors |-> <<>>]

\* What the constructor can meet: the clients cannot be built (no probe is
\* sent), the probe raises, the probe answers with no data, or the probe
\* answers with an embedding of dim numbers.
ProbeDimensions == {2, 3}
ProbeOutcomes ==
    { [kind |-> k, dim |-> 0] : k \in {"client_error", "probe_error", "probe_empty"} }
        \cup { [kind |-> "ok", dim |-> d] : d \in ProbeDimensions }

NoProbe == [kind |-> "none", dim |-> 0]

\* A slip of the constructor: a failed probe is swallowed and the provider is
\* built without a dimension.
MutantConstruct(model_name, outcome) ==
    /\ pState = "new"
    /\ modelName' = model_name
    /\ probe' = outcome
    /\ probeCount' = IF outcome.kind = "client_error" THEN probeCount ELSE probeCount + 1
    /\ pState' = "ready"
    /\ vectorSize' = outcome.dim
    /\ vectorName' = VectorNameOf(model_name)
    /\ UNCHANGED <<documentsVars, queryVars, notEmbedVars>>

\* Lines 17-29: __init__.  The clients are built, the probe is sent once and
\* awaited synchronously; any exception leaves no provider.
Construct(model_name, outcome) ==
    /\ pState = "new"
    /\ modelName' = model_name
    /\ probe' = outcome
    /\ probeCount' = IF outcome.kind = "client_error" THEN probeCount ELSE probeCount + 1
    /\ IF outcome.kind = "ok"
       THEN /\ pState' = "ready"
            /\ vectorSize' = outcome.dim
            /\ vectorName' = VectorNameOf(model_name)
       ELSE /\ pState' = "failed"
            /\ UNCHANGED <<vectorSize, vectorName>>
    /\ UNCHANGED <<documentsVars, queryVars, notEmbedVars>>

\* Lines 45-49.
get_vector_name == vectorName
get_vector_size == vectorSize

\* The response of the transport to a batch: one item per input, in the
\* order perm, each tagged (or not) with the index of its input.
BatchResponse(documents, perm, tagged) ==
    [i \in 1..Len(documents) |->
        [index |-> perm[i] - 1, hasIndex |-> tagged,
         embedding |-> Embedding(documents[perm[i]])]]

IndexPermutations(n) == { f \in [1..n -> 1..n] : \A i, j \in 1..n : f[i] = f[j] => i = j }

\* Lines 31-34: embed_documents up to its await.
EmbedDocumentsCall(documents) ==
    /\ pState = "ready"
    /\ dPc \in {"idle", "done"}
    /\ dPc' = "awaiting"
    /\ dDocs' = documents
    /\ dResponse' = <<>>
    /\ dResult' = NoResult
    /\ UNCHANGED <<providerVars, queryVars, notEmbedVars>>

\* Lines 35-37: the transport answered; the vectors are extracted.
EmbedDocumentsReturn ==
    /\ dPc = "awaiting"
    /\ dPc' = "done"
    /\ \E perm \in IndexPermutations(Len(dDocs)), tagged \in BOOLEAN :
          dResponse' = BatchResponse(dDocs, perm, tagged)
    /\ dResult' = [raised |-> FALSE, vectors |-> ExtractVectors(dResponse')]
    /\ UNCHANGED <<dDocs, providerVars, queryVars, notEmbedVars>>

\* Line 32: the transport raised; the exception reaches the caller.
EmbedDocumentsRaise ==
    /\ dPc = "awaiting"
    /\ dPc' = "done"
    /\ dResult' = [raised |-> TRUE, vectors |-> <<>>]
    /\ UNCHANGED <<dDocs, dResponse, providerVars, queryVars, notEmbedVars>>

\* Lines 39-42: embed_query up to its await.
EmbedQueryCall(query) ==
    /\ pState = "ready"
    /\ qPc \in {"idle", "done"}
    /\ qPc' = "awaiting"
    /\ qText' = query
    /\ qResult' = NoResult
    /\ UNCHANGED <<providerVars, documentsVars, notEmbedVars>>

\* Line 43: list(response.data[0].embedding).
EmbedQueryReturn ==
    /\ qPc = "awaiting"
    /\ qPc' = "done"
    /\ qResult' = [raised |-> FALSE, vectors |-> <<Embedding(qText)>>]
    /\ UNCHANGED <<qText, providerVars, documentsVars, notEmbedVars>>

\* Line 40: the transport raised.
EmbedQueryRaise ==
    /\ qPc = "awaiting"
    /\ qPc' = "done"
    /\ qResult' = [raised |-> TRUE, vectors |-> <<>>]
    /\ UNCHANGED <<qText, providerVars, documentsVars, notEmbedVars>>

---------------------------------------------------------------------------
(* SpecEmbed: one provider is constructed and serves embed requests *)

\* Longest batch of documents.
MaxDocs == 3

Texts == {"t1", "t2"}
DocumentLists == UNION { [1..n -> Texts] : n \in 0..MaxDocs }

ADA == <<"a","d","a">>
ORG_MODEL == <<"O","r","g","/","M","y"," ","m",":","v","1">>
ModelNames == {ADA, ORG_MODEL}

EmbedInit ==
    /\ pState = "new"
    /\ modelName = <<>>
    /\ probe = NoProbe
    /\ probeCount = 0
    /\ vectorSize = 0
    /\ vectorName = <<>>
    /\ dPc = "idle" /\ dDocs = <<>> /\ dResponse = <<>> /\ dResult = NoResult
    /\ qPc = "idle" /\ qText = "" /\ qResult = NoResult

EmbedIdle == EmbedInit

NextEmbed ==
    \/ \E m \in ModelNames, o \in ProbeOutcomes : Construct(m, o)
    \/ \E d \in DocumentLists : EmbedDocumentsCall(d)
    \/ EmbedDocumentsReturn
    \/ EmbedDocumentsRaise
    \/ \E q \in Texts : EmbedQueryCall(q)
    \/ EmbedQueryReturn
    \/ EmbedQueryRaise


(* Claims about the embedding provider *)

\* C9: embed_documents does not depend on the order of the response: when
\* every item carries the index of its input, the result has one vector per
\* input and its i-th vector is the vector of the i-th input, whatever
\* permutation the transport returned.
C9_PermutationInvariant ==
    (dPc = "done" /\ ~dResult.raised /\ \A i \in 1..Len(dResponse) : dResponse[i].hasIndex)
        => /\ Len(dResult.vectors) = Len(dDocs)
           /\ \A i \in 1..Len(dDocs) : dResult.vectors[i] = Embedding(dDocs[i])

\* C9 witness: a batch of three texts answered last-first, returned first-last.
C9_Witness ==
    /\ dPc = "done"
    /\ dDocs = <<"t1", "t1", "t2">>
    /\ Len(dResponse) = 3
    /\ dResponse[1].hasIndex /\ dResponse[1].index = 2
    /\ dResponse[3].index = 0
    /\ dResponse[1].embedding = Embedding("t2")
    /\ dResult.vectors = <<Embedding("t1"), Embedding("t1"), Embedding("t2")>>

\* The provider's state around the probe.
C10_ProbeState ==
    /\ probeCount <= 1
    /\ pState = "ready" => (probeCount = 1 /\ probe.kind = "ok" /\ get_vector_size = probe.dim)
    /\ (dPc # "idle" \/ qPc # "idle") => (pState = "ready" /\ probeCount = 1)
    /\ probe.kind \in {"probe_error", "probe_empty"} =>
          (pState = "failed" /\ dPc = "idle" /\ qPc = "idle")

\* What a step may do to a constructed, or a failed, provider.
C10_ProbeStep ==
    /\ pState = "ready" =>
          /\ pState' = "ready"
          /\ probeCount' = probeCount
          /\ get_vector_size' = get_vector_size
          /\ get_vector_name' = get_vector_name
    /\ pState = "failed" => (pState' = "failed" /\ probeCount' = probeCount)

\* C10: the probe is sent exactly once, in the constructor, before any embed
\* request can start; a failed probe fails the construction and leaves no
\* provider (no retry, no degraded provider); after construction
\* get_vector_size and get_vector_name never change, whatever embed requests
\* follow or interleave.
C10_ProbeOnceAndStable == [](C10_ProbeState) /\ [][C10_ProbeStep]_vars

\* C10 witness: a constructed provider with a batch in flight and a query
\* answered, after one probe.
C10_Witness ==
    /\ pState = "ready"
    /\ probeCount = 1
    /\ dPc = "awaiting"
    /\ qPc = "done"
    /\ get_vector_name = <<"o","p","e","n","a","i","-","o","r","g","-","m","y","-","m","-","v","1">>

---------------------------------------------------------------------------
(* Spec: one HTTP request at a time through HybridMCPApp.__call__ *)

\* Most entries the connector returns to one search.
MaxEntries == 2

NOTE == <<"n","o","t","e">>
TOPIC == <<"t","o","p","i","c">>
NOTES_COLLECTION == <<"n","o","t","e","s">>
DEFAULT_COLLECTION == <<"d","f","l","t">>
UTF8 == <<";"," ","c","h","a","r","s","e","t","=","u","t","f","-","8">>
TEXT_PLAIN == <<"t","e","x","t","/","p","l","a","i","n">>

ScopeTypes == {"http", "websocket"}
HttpMethods == {"GET", "POST"}
Paths == {MCP_PREFIX, MCP_PREFIX \o <<"/">> \o FOO, <<"/">> \o FOO}
AcceptHeaders ==
    { Absent, Str(APPLICATION_JSON), Str(TEXT_EVENT_STREAM),
      Str(APPLICATION_JSON \o <<",", " ">> \o TEXT_EVENT_STREAM),
      Str(APPLICATION_JSON_SEQ),
      Str(<<"T","e","x","t","/","E","v","e","n","t","-","S","t","r","e","a","m">>) }
ContentTypes ==
    { Absent, Str(APPLICATION_JSON),
      Str(<<"A","p","p","l","i","c","a","t","i","o","n","/","J","S","O","N">> \o UTF8),
      Str(TEXT_PLAIN) }

Scopes ==
    [type : ScopeTypes, method : HttpMethods, path : Paths,
     accept : AcceptHeaders, content_type : ContentTypes]

NoScope ==
    [type |-> "none", method |-> "", path |-> <<>>, accept |-> Absent, content_type |-> Absent]

\* The bodies a client may send.
OptionalTexts(text) == {Absent, Str(<<>>), Str(text)}
ArgumentObjects ==
    [kind : {"object"},
     information : OptionalTexts(NOTE),
     metadata : {Absent},
     collection_name : OptionalTexts(NOTES_COLLECTION),
     query : OptionalTexts(TOPIC),
     query_filter : {"absent", "empty", "valid", "invalid"}]
Arguments == ArgumentObjects \cup {[kind |-> "absent"], [kind |-> "array"]}

CallNames ==
    { Absent, Str(<<>>), Str(QDRANT_STORE), Str(QDRANT_FIND),
      Str(QDRANT \o <<".">> \o QDRANT_STORE), Str(QDRANT_PREFIX \o QDRANT_FIND),
      Str(FOO), Str(QDRANT \o <<".">>) }

NoParams == [kind |-> "absent"]
CallParams ==
    [kind : {"object"}, name : CallNames, arguments : Arguments]
        \cup {NoParams, [kind |-> "array"]}

IdValues == {"None", "7"}
OtherMethods ==
    {"None", "initialize", "tools/list", "tools/list_changed", "ping", "resources/list"}

NoPayload == [json |-> "unread", method |-> "None", id |-> "None", params |-> NoParams]

Bodies ==
    { [json |-> j, method |-> "None", id |-> "None", params |-> NoParams] :
          j \in {"invalid", "list", "NoneType"} }
    \cup [json : {"object"}, method : OtherMethods, id : IdValues, params : {NoParams}]
    \cup [json : {"object"}, method : {"tools/call"}, id : IdValues, params : CallParams]

\* The entries the connector may hold, and what it may answer.
EntryPool ==
    { [content |-> NOTE, metadata |-> <<>>],
      [content |-> TOPIC, metadata |-> <<"{'k': 1}">>] }
EntryLists == UNION { [1..n -> EntryPool] : n \in 0..MaxEntries }
Environments ==
    [storeRaises : BOOLEAN,
     search : {SearchRaised} \cup {SearchFound(e) : e \in EntryLists}]

HttpInit ==
    /\ defaultCollection \in {Absent, Str(DEFAULT_COLLECTION)}
    /\ hPc = "idle"
    /\ scope = NoScope
    /\ handlers = {}
    /\ bodyRead = FALSE
    /\ payload = NoPayload
    /\ response = NoResponse
    /\ escaped = <<>>
    /\ storeCalls = <<>>
    /\ searchCalls = <<>>
    /\ searchAnswer = NoAnswer

HttpIdle ==
    /\ defaultCollection = Absent
    /\ hPc = "off"
    /\ scope = NoScope
    /\ handlers = {}
    /\ bodyRead = FALSE
    /\ payload = NoPayload
    /\ response = NoResponse
    /\ escaped = <<>>
    /\ storeCalls = <<>>
    /\ searchCalls = <<>>
    /\ searchAnswer = NoAnswer

\* A request reaches the application.
Receive ==
    /\ hPc = "idle"
    /\ hPc' = "received"
    /\ scope' \in Scopes
    /\ UNCHANGED <<defaultCollection, handlers, bodyRead, payload, response, escaped,
                   storeCalls, searchCalls, searchAnswer, notHttpVars>>

\* Lines 125, 134 and 136: __call__ returns (or the exception leaves it) and
\* everything of the request is dropped; only the process-wide default
\* collection stays.
Return ==
    /\ hPc \in {"streamed", "responded", "escaped"}
    /\ hPc' = "idle"
    /\ scope' = NoScope
    /\ handlers' = {}
    /\ bodyRead' = FALSE
    /\ payload' = NoPayload
    /\ response' = NoResponse
    /\ escaped' = <<>>
    /\ storeCalls' = <<>>
    /\ searchCalls' = <<>>
    /\ searchAnswer' = NoAnswer
    /\ UNCHANGED <<defaultCollection, notHttpVars>>

\* Lines 123-125 and 136: the request goes to the streaming application,
\* with its receive channel untouched.
ForwardToStream ==
    /\ hPc = "received"
    /\ ~TakesJsonRpc(scope)
    /\ hPc' = "streamed"
    /\ handlers' = handlers \cup {"stream"}
    /\ UNCHANGED <<defaultCollection, scope, bodyRead, payload, response, escaped,
                   storeCalls, searchCalls, searchAnswer, notHttpVars>>

\* Lines 130-131: the request goes to the shim.
RouteToJsonRpc ==
    /\ hPc = "received"
    /\ TakesJsonRpc(scope)
    /\ hPc' = "jsonrpc"
    /\ handlers' = handlers \cup {"jsonrpc"}
    /\ UNCHANGED <<defaultCollection, scope, bodyRead, payload, response, escaped,
                   storeCalls, searchCalls, searchAnswer, notHttpVars>>

\* Lines 132-134: _handle_jsonrpc reads the body, answers it or raises.
\* The body is what the client sent, env what the connector would answer.
HandleJsonRpc ==
    /\ hPc = "jsonrpc"
    /\ \E body \in Bodies, env \in Environments :
          LET done == _handle_jsonrpc(body, defaultCollection, env)
          IN  /\ hPc' = IF done.response.sent THEN "responded" ELSE "escaped"
              /\ response' = done.response
              /\ escaped' = done.escaped
              /\ storeCalls' = done.storeCalls
              /\ searchCalls' = done.searchCalls
              /\ searchAnswer' = done.searchAnswer
              /\ payload' = body
    /\ bodyRead' = TRUE
    /\ UNCHANGED <<defaultCollection, scope, handlers, notHttpVars>>

Init == HttpInit /\ ResolveIdle /\ SerializeIdle /\ EmbedIdle

Next ==
    \/ Receive
    \/ ForwardToStream
    \/ RouteToJsonRpc
    \/ HandleJsonRpc
    \/ Return

Spec == Init /\ [][Next]_vars

InitResolve == ResolveInit /\ SerializeIdle /\ EmbedIdle /\ HttpIdle
NextResolve == ResolveFirst \/ ResolveAgain
SpecResolve == InitResolve /\ [][NextResolve]_vars

InitSerialize == SerializeInit /\ ResolveIdle /\ EmbedIdle /\ HttpIdle
NextSerialize == Serialize
SpecSerialize == InitSerialize /\ [][NextSerialize]_vars

InitEmbed == EmbedInit /\ ResolveIdle /\ SerializeIdle /\ HttpIdle
SpecEmbed == InitEmbed /\ [][NextEmbed]_vars

---------------------------------------------------------------------------
(* Claims about the request bridge *)

\* The shim has finished with the request: it answered, or an exception
\* left it.
Handled == hPc \in {"responded", "escaped"}

\* The request was a tools/call.
IsToolsCall == Handled /\ payload.json = "object" /\ payload.method = "tools/call"

\* params.name of the request, None when there is none.
CallName == IF payload.params.kind = "object" THEN payload.params.name ELSE Absent

\* arguments[key] of the request, None when there is none.
CallArgument(key) ==
    IF payload.params.kind = "object" /\ payload.params.arguments.kind = "object"
    THEN payload.params.arguments[key]
    ELSE Absent

\* The arguments of the request are an object, or are left out.
ArgumentsAreMapping ==
    payload.params.kind = "object" /\ payload.params.arguments.kind # "array"

\* The canonical name of the tool called.
CanonicalName == _resolve_tool_name(CallName).name

IsToolError(message) ==
    /\ hPc = "responded"
    /\ response.envelope
    /\ response.hasError /\ ~response.hasResult
    /\ response.code = -32000
    /\ response.message = message

\* C1: every tools/call whose execution raises, a missing or empty
\* params.name included, is answered with error -32000 carrying the
\* exception's message; no exception leaves the dispatcher.  Stated for the
\* calls whose params is a mapping or is left out.
C1_ToolsCallNeverEscapes ==
    (IsToolsCall /\ payload.params.kind # "array") =>
        /\ hPc # "escaped"
        /\ escaped = <<>>
        /\ ~Truthy(CallName) => IsToolError(<<"Missing tool name">>)

\* The conditions of the claim on a request's scope.
C2_HeaderValue(header) == IF header.present THEN header.chars ELSE <<>>
C2_Qualifies ==
    /\ scope.type = "http"
    /\ scope.method = "POST"
    /\ StartsWith(scope.path, <<"/","m","c","p">>)
    /\ ~Contains(C2_HeaderValue(scope.accept), TEXT_EVENT_STREAM)
    /\ ~Contains(C2_HeaderValue(scope.accept), APPLICATION_JSON_SEQ)
    /\ Contains(Lower(C2_HeaderValue(scope.content_type)), APPLICATION_JSON)

\* C2: a request is handled by exactly one handler, by the shim if and only
\* if it is an HTTP POST whose path begins with /mcp, whose Accept contains
\* neither text/event-stream nor application/json-seq and whose Content-Type
\* contains application/json in any case; otherwise it is forwarded to the
\* streaming handler and its body is never read by the bridge.
C2_RoutedIffQualifies ==
    /\ hPc \in {"idle", "received"} => (handlers = {} /\ ~bodyRead)
    /\ hPc \in {"jsonrpc", "streamed", "responded", "escaped"} =>
          /\ Cardinality(handlers) = 1
          /\ ("jsonrpc" \in handlers) <=> C2_Qualifies
          /\ ("stream" \in handlers) <=> ~C2_Qualifies
          /\ ("stream" \in handlers) => (hPc = "streamed" /\ ~bodyRead /\ payload = NoPayload)

\* C2 witness: a POST to /mcp with a JSON Content-Type whose Accept asks for
\* text/event-stream was forwarded to the streaming handler.
C2_Witness ==
    /\ hPc = "streamed"
    /\ handlers = {"stream"}
    /\ scope.type = "http" /\ scope.method = "POST" /\ scope.path = MCP_PREFIX
    /\ scope.content_type = Str(APPLICATION_JSON)
    /\ scope.accept = Str(APPLICATION_JSON \o <<",", " ">> \o TEXT_EVENT_STREAM)

ImplementedMethods == {"initialize", "tools/list", "tools/list_changed", "tools/call", "ping"}

\* C3: every request handed to the shim ends in a structured response: 400
\* with the static body when the body is not JSON, and for every body that
\* parses as JSON an envelope with the request's id and exactly one of result
\* and error, the error code being -32601 exactly when the method is not
\* implemented.  Stated for the requests other than a tools/call, so that
\* it does not rest on what a tools/call does.
C3_AlwaysStructuredResponse ==
    (Handled /\ payload.method # "tools/call") =>
        /\ hPc = "responded"
        /\ response.sent
        /\ payload.json = "invalid" => response = InvalidPayloadResponse
        /\ payload.json # "invalid" =>
              /\ response.envelope
              /\ response.status = 200
              /\ response.id = payload.id
              /\ response.hasResult # response.hasError
              /\ (response.hasError /\ response.code = -32601)
                    <=> (payload.method \notin ImplementedMethods)

\* C6: a tools/call whose arguments fail validation is answered with error
\* -32000 and the connector is asked neither to store nor to search:
\* qdrant-store without information, qdrant-find without query, either tool
\* with neither a collection_name nor a default collection, and any other
\* canonical name; the required argument is checked before the collection.
C6_ValidationFailsBeforeConnector ==
    (IsToolsCall /\ hPc = "responded" /\ ArgumentsAreMapping) =>
        LET noCollection == ~Truthy(CallArgument("collection_name")) /\ ~Truthy(defaultCollection)
            quiet == storeCalls = <<>> /\ searchCalls = <<>>
        IN  /\ (CanonicalName = QDRANT_STORE /\ ~Truthy(CallArgument("information")))
                  => (IsToolError(<<"information is required">>) /\ quiet)
            /\ (CanonicalName = QDRANT_FIND /\ ~Truthy(CallArgument("query")))
                  => (IsToolError(<<"query is required">>) /\ quiet)
            /\ (CanonicalName = QDRANT_STORE /\ Truthy(CallArgument("information")) /\ noCollection)
                  => (IsToolError(<<"collection_name is required when no default is set">>) /\ quiet)
            /\ (CanonicalName = QDRANT_FIND /\ Truthy(CallArgument("query")) /\ noCollection)
                  => (IsToolError(<<"collection_name is required when no default is set">>) /\ quiet)
            /\ (CanonicalName \notin {QDRANT_STORE, QDRANT_FIND})
                  => (IsToolError(<<"Unknown tool: ">> \o CanonicalName) /\ quiet)

\* C6 witness: qdrant.qdrant-store called with no information and no
\* collection at all: the answer names the information, not the collection.
C6_Witness ==
    /\ hPc = "responded"
    /\ payload.method = "tools/call"
    /\ payload.params.kind = "object"
    /\ payload.params.name = Str(QDRANT \o <<".">> \o QDRANT_STORE)
    /\ payload.params.arguments.kind = "object"
    /\ payload.params.arguments.information = Absent
    /\ payload.params.arguments.collection_name = Absent
    /\ defaultCollection = Absent
    /\ response.code = -32000
    /\ response.message = <<"information is required">>
    /\ storeCalls = <<>>

\* A text block of the response.
C7_Text(text) ==
    [variant |-> "text", type |-> "text", text |-> text, value |-> [py |-> "str", val |-> text]]

\* C7: the content of a successful tools/call is never empty: one block
\* naming the effective collection (the collection_name argument when one is
\* given, else the default) for qdrant-store; one block saying that nothing
\* matched for a qdrant-find with no entries; the header and then one block
\* per entry, in the connector's order, for a qdrant-find with n >= 1 entries.
C7_ContentShape ==
    (IsToolsCall /\ hPc = "responded" /\ response.hasResult) =>
        LET content == response.result.content
            given == CallArgument("collection_name")
            effective == IF given.present /\ given.chars # <<>>
                         THEN given.chars ELSE defaultCollection.chars
            entries == searchAnswer.entries
        IN  /\ response.result.tag = "content"
            /\ content # <<>>
            /\ CanonicalName \in {QDRANT_STORE, QDRANT_FIND}
            /\ CanonicalName = QDRANT_STORE =>
                  /\ Len(storeCalls) = 1
                  /\ storeCalls[1].collection_name = effective
                  /\ content = <<C7_Text(<<"Remembered: ">> \o CallArgument("information").chars
                                          \o <<" in collection ">> \o effective)>>
            /\ (CanonicalName = QDRANT_FIND /\ entries = <<>>) =>
                  content = <<C7_Text(<<"No matching entries.">>)>>
            /\ (CanonicalName = QDRANT_FIND /\ entries # <<>>) =>
                  /\ Len(content) = Len(entries) + 1
                  /\ content[1] = C7_Text(<<"Results for the query '">>
                                           \o CallArgument("query").chars \o <<"'">>)
                  /\ \A i \in 1..Len(entries) : content[i + 1] = C7_Text(EntryText(entries[i]))

\* C7 witness: a qdrant-find answered with two different entries gave the
\* header and the two entries in the connector's order; the collection asked
\* was the argument although a default is set.
C7_Witness ==
    /\ hPc = "responded"
    /\ response.hasResult
    /\ CanonicalName = QDRANT_FIND
    /\ Len(searchAnswer.entries) = 2
    /\ searchAnswer.entries[1].content = TOPIC
    /\ searchAnswer.entries[2].content = NOTE
    /\ Len(response.result.content) = 3
    /\ defaultCollection = Str(DEFAULT_COLLECTION)
    /\ Len(searchCalls) = 1
    /\ searchCalls[1].collection_name = NOTES_COLLECTION

=============================================================================
